---- MODULE Spec2Model ----
(***************************************************************************)
(* A model of platmgr/tools/afu_platform_config.py: the reading of an       *)
(* AFU's interface request (getAfuIfc), the merge of its module-ports      *)
(* records into the AFU top-level interface database                       *)
(* (injectAfuIfcChanges) and the match of the AFU's ports against the      *)
(* ports a platform offers (matchAfuPorts); and of the search paths of     *)
(* platmgr/tools/afu_synth_setup.py (getCmdEnv, updCmdEnv).                *)
(*                                                                         *)
(* Python objects live in a heap: `heap[a]` is the object at address a.    *)
(* A dictionary is a sequence of <<key, value>> pairs with distinct keys,  *)
(* in insertion order, as Python keeps it.  Two containers that hold the   *)
(* same address hold the same object.                                      *)
(***************************************************************************)
EXTENDS Integers, Sequences, FiniteSets, TLC

VARIABLES
    heap,           \* address -> [dict: is it a dictionary, kv: its items]
    orig,           \* history: every object as it was when it was loaded
    mp,             \* afu_ifc_db['module-ports']: class -> address
    offered,        \* platform_db['module-ports-offered']: key -> address
    data,           \* history: afu-top-interface of the AFU's JSON as parsed
    afu_ifc_req,    \* the AFU's interface request (getAfuIfc's afu_ifc)
    req,            \* the elements of its module-ports the loop has read
    pi,             \* matchAfuPorts: index in mp of the port of this iteration
    entries,        \* matchAfuPorts: <<entries>> once a size was picked
    afu_ports,      \* matchAfuPorts: the local list of matches
    afu_port_list,  \* main: <<list>> once matchAfuPorts has returned
    calls,          \* history: the calls main has made, in order
    env,            \* afu_synth_setup: os.environ
    upd,            \* afu_synth_setup: the last call of updCmdEnv
    pc,             \* position in main
    err             \* the fatal condition errorExit was called for

vars == <<heap, orig, mp, offered, data, afu_ifc_req, req, pi, entries,
          afu_ports, afu_port_list, calls, env, upd, pc, err>>

\* The state of afu_synth_setup, which afu_platform_config never touches.
envVars == <<env, upd>>

----------------------------------------------------------------------------
(* Bounds of the model. *)

\* Length of the AFU's module-ports list.
MaxRecs == 2
\* Largest min-/max-/default-entries below the unbounded sentinel.
MaxEntry == 3
\* The longest search list an environment variable holds at first, in
\* characters, and the number of commands run.
MaxStr == 3
MaxRuns == 2

\* sys.maxsize, scaled to the entry counts of the model: the value of
\* max-entries that stands for "no maximum requested".
maxsize == MaxEntry + 1

----------------------------------------------------------------------------
(* Python dictionaries. *)

\* k in d
Has(d, k) == \E i \in 1..Len(d) : d[i][1] = k

\* d[k]
Get(d, k) == d[CHOOSE i \in 1..Len(d) : d[i][1] = k][2]

\* d[k] = v: an existing key keeps its place, a new key goes last.
Put(d, k, v) ==
    IF Has(d, k)
    THEN [i \in 1..Len(d) |-> IF d[i][1] = k THEN <<k, v>> ELSE d[i]]
    ELSE Append(d, <<k, v>>)

\* list(d.keys())
Keys(d) == [i \in 1..Len(d) |-> d[i][1]]

\* A dictionary object and an object that is no dictionary.
Dict(kv) == [dict |-> TRUE, kv |-> kv]
NotADict == [dict |-> FALSE, kv |-> <<>>]

----------------------------------------------------------------------------
(* errorExit: the run ends with the fatal condition. *)

NoError == "none"

\* errorExit without its sys.exit: the diagnostic is written and the run
\* goes on.
errorExit_Continue(kind) == pc' = pc /\ err' = kind

errorExit(kind) ==
    /\ pc' = "error"
    /\ err' = kind

----------------------------------------------------------------------------
(* getAfuIfc *)

\* d.pop(k)
Pop(d, k) == SelectSeq(d, LAMBDA it : it[1] # k)

\* The clean-up with dict.pop(key, None) and no test that the legacy key
\* is there.
CleanLegacy_Unguarded(afu_ifc) ==
    LET a == Put(Pop(afu_ifc, "module-arguments"), "module-ports",
                 IF Has(afu_ifc, "module-arguments")
                 THEN Get(afu_ifc, "module-arguments") ELSE "None")
    IN  Put(Pop(a, "name"), "class",
            IF Has(a, "name") THEN Get(a, "name") ELSE "None")

\* Clean up legacy AFU JSON: 'module-ports' used to be 'module-arguments',
\* 'class' used to be 'name'.
CleanLegacy(afu_ifc) ==
    LET a == IF Has(afu_ifc, "module-arguments")
             THEN Put(Pop(afu_ifc, "module-arguments"), "module-ports",
                      Get(afu_ifc, "module-arguments"))
             ELSE afu_ifc
    IN  IF Has(a, "name")
        THEN Put(Pop(a, "name"), "class", Get(a, "name"))
        ELSE a

\* afu_ifc['file_path'] and afu_ifc['file_name']
WithFile(afu_ifc) ==
    Put(Put(afu_ifc, "file_path", "afu.json"), "file_name", "afu")

\* The interface records of the AFU's JSON in a whole run: a legacy record
\* with a list of ports, records without ports or with ports that are no
\* list, a record without class.  The value of module-ports says whether it
\* is a list; the list's elements are in RecPool.
ReqSeqs ==
    {<< <<"name", "ccip_std_afu">>, <<"module-arguments", "list">> >>,
     << <<"class", "ccip_std_afu">>, <<"module-ports", "other">> >>,
     << <<"class", "ccip_std_afu">> >>,
     << <<"module-ports", "list">> >>}

\* afu_ifc_req['module-ports']: absent, a list, or something else.
req_kind ==
    IF Has(afu_ifc_req, "module-ports")
    THEN Get(afu_ifc_req, "module-ports") ELSE "absent"

----------------------------------------------------------------------------
(* injectAfuIfcChanges *)

legal_afu_ifc_update_classes ==
    {"default-entries", "max-entries", "min-entries", "optional", "params"}

\* UpdateFields that writes every field, permitted or not.
RECURSIVE UpdateFields_Unchecked(_, _, _, _, _)
UpdateFields_Unchecked(h, t, a, ks, i) ==
    IF i > Len(ks) THEN [heap |-> h, err |-> NoError]
    ELSE LET k == ks[i] IN
         IF k = "class" THEN UpdateFields_Unchecked(h, t, a, ks, i + 1)
         ELSE UpdateFields_Unchecked(
                  [h EXCEPT ![t].kv = Put(@, k, Get(h[a].kv, k))],
                  t, a, ks, i + 1)

\* The override loop from the i-th key of the record at address a on: the
\* record's fields are written to the port at address t one by one, and the
\* loop stops at the first field that may not be updated.
RECURSIVE UpdateFields(_, _, _, _, _)
UpdateFields(h, t, a, ks, i) ==
    IF i > Len(ks) THEN [heap |-> h, err |-> NoError]
    ELSE LET k == ks[i] IN
         IF k = "class" THEN UpdateFields(h, t, a, ks, i + 1)
         ELSE IF k \notin legal_afu_ifc_update_classes
              THEN [heap |-> h, err |-> "UnauthorizedOverride"]
              ELSE UpdateFields(
                       [h EXCEPT ![t].kv = Put(@, k, Get(h[a].kv, k))],
                       t, a, ks, i + 1)

\* InjectPort that takes a new class without asking for its interface.
InjectPort_NoInterfaceCheck(h, m, a) ==
    LET port == h[a] IN
    IF ~port.dict
    THEN [heap |-> h, mp |-> m, err |-> "SchemaError"]
    ELSE IF ~Has(port.kv, "class")
    THEN [heap |-> h, mp |-> m, err |-> "MissingField"]
    ELSE LET c == Get(port.kv, "class") IN
         IF ~Has(m, c)
         THEN [heap |-> h, mp |-> Put(m, c, a), err |-> NoError]
         ELSE LET r == UpdateFields(h, Get(m, c), a, Keys(port.kv), 1)
              IN  [heap |-> r.heap, mp |-> m, err |-> r.err]

\* The iteration, the ports being told apart by class and interface: a
\* record of a class in the set with another interface is a new port.
InjectPort_KeyedByPair(h, m, a) ==
    LET port == h[a] IN
    IF ~port.dict
    THEN [heap |-> h, mp |-> m, err |-> "SchemaError"]
    ELSE IF ~Has(port.kv, "class")
    THEN [heap |-> h, mp |-> m, err |-> "MissingField"]
    ELSE LET c == Get(port.kv, "class") IN
         IF ~Has(m, c)
         THEN IF ~Has(port.kv, "interface")
              THEN [heap |-> h, mp |-> m, err |-> "MissingField"]
              ELSE [heap |-> h, mp |-> Put(m, c, a), err |-> NoError]
         ELSE IF /\ Has(port.kv, "interface")
                 /\ Get(port.kv, "interface") #
                        Get(h[Get(m, c)].kv, "interface")
         THEN [heap |-> h, mp |-> Append(m, <<c, a>>), err |-> NoError]
         ELSE LET r == UpdateFields(h, Get(m, c), a, Keys(port.kv), 1)
              IN  [heap |-> r.heap, mp |-> m, err |-> r.err]

\* The iteration, a new port being inserted under its interface, not its
\* class.
InjectPort_KeyByInterface(h, m, a) ==
    LET port == h[a] IN
    IF ~port.dict
    THEN [heap |-> h, mp |-> m, err |-> "SchemaError"]
    ELSE IF ~Has(port.kv, "class")
    THEN [heap |-> h, mp |-> m, err |-> "MissingField"]
    ELSE LET c == Get(port.kv, "class") IN
         IF ~Has(m, c)
         THEN IF ~Has(port.kv, "interface")
              THEN [heap |-> h, mp |-> m, err |-> "MissingField"]
              ELSE [heap |-> h, mp |-> Put(m, Get(port.kv, "interface"), a),
                    err |-> NoError]
         ELSE LET r == UpdateFields(h, Get(m, c), a, Keys(port.kv), 1)
              IN  [heap |-> r.heap, mp |-> m, err |-> r.err]

\* One iteration of the loop over afu_ifc_req['module-ports'], for the
\* record at address a.
InjectPort(h, m, a) ==
    LET port == h[a] IN
    IF ~port.dict
    THEN [heap |-> h, mp |-> m, err |-> "SchemaError"]
    ELSE IF ~Has(port.kv, "class")
    THEN [heap |-> h, mp |-> m, err |-> "MissingField"]
    ELSE LET c == Get(port.kv, "class") IN
         IF ~Has(m, c)
         THEN IF ~Has(port.kv, "interface")
              THEN [heap |-> h, mp |-> m, err |-> "MissingField"]
              ELSE [heap |-> h, mp |-> Put(m, c, a), err |-> NoError]
         ELSE LET r == UpdateFields(h, Get(m, c), a, Keys(port.kv), 1)
              IN  [heap |-> r.heap, mp |-> m, err |-> r.err]

\* The loop over afu_ifc_req['module-ports'] from its i-th element on, the
\* elements being the records at the addresses as: it ends at the first
\* error.
RECURSIVE InjectFrom(_, _, _, _)
InjectFrom(h, m, as, i) ==
    IF i > Len(as)
    THEN [heap |-> h, mp |-> m, err |-> NoError]
    ELSE LET r == InjectPort(h, m, as[i]) IN
         IF r.err # NoError THEN r
         ELSE InjectFrom(r.heap, r.mp, as, i + 1)

----------------------------------------------------------------------------
(* matchAfuPorts *)

\* plat_key = port['class'] + '/' + port['interface']
PlatKey(port) == Get(port, "class") \o "/" \o Get(port, "interface")

\* PickEntries with the platform's default tried before the AFU's.
PickEntries_PlatDefaultFirst(port, plat) ==
    IF /\ Get(port, "max-entries") = maxsize
       /\ Has(plat, "default-entries")
       /\ Get(plat, "default-entries") >= Get(port, "min-entries")
    THEN Get(plat, "default-entries")
    ELSE IF /\ Get(port, "max-entries") = maxsize
            /\ Has(port, "default-entries")
            /\ Get(port, "default-entries") >= Get(plat, "min-entries")
            /\ Get(port, "default-entries") <= Get(plat, "max-entries")
         THEN Get(port, "default-entries")
         ELSE Get(plat, "max-entries")

\* Both are vectors: the size to start with.
PickEntries(port, plat) ==
    IF /\ Get(port, "max-entries") = maxsize
       /\ Has(port, "default-entries")
       /\ Get(port, "default-entries") >= Get(plat, "min-entries")
       /\ Get(port, "default-entries") <= Get(plat, "max-entries")
    THEN Get(port, "default-entries")
    ELSE IF /\ Get(port, "max-entries") = maxsize
            /\ Has(plat, "default-entries")
            /\ Get(plat, "default-entries") >= Get(port, "min-entries")
         THEN Get(plat, "default-entries")
         ELSE Get(plat, "max-entries")

\* Constrain the number to what the AFU can accept.
ConstrainEntries(port, plat) ==
    LET e == PickEntries(port, plat) IN
    IF e > Get(port, "max-entries") THEN Get(port, "max-entries") ELSE e

\* EntriesError without the check against the AFU's min-entries.
EntriesError_NoAfuMin(port, plat, e) ==
    IF e < Get(plat, "min-entries") THEN "InsufficientEntries" ELSE NoError

\* The two lower-bound checks on the constrained number e.
EntriesError(port, plat, e) ==
    IF e < Get(port, "min-entries") THEN "InsufficientEntries"
    ELSE IF e < Get(plat, "min-entries") THEN "InsufficientEntries"
    ELSE NoError

\* VectorError that lets a non-vector request take an offered vector.
VectorError_OneWay(port, plat) ==
    IF Get(port, "vector") /\ ~Get(plat, "vector") THEN "VectorMismatch"
    ELSE NoError

\* What the two vector flags of a found pair lead to.
VectorError(port, plat) ==
    IF ~Get(port, "vector") /\ ~Get(plat, "vector") THEN NoError
    ELSE IF Get(port, "vector") /\ ~Get(plat, "vector") THEN "VectorMismatch"
    ELSE IF ~Get(port, "vector") /\ Get(plat, "vector") THEN "VectorMismatch"
    ELSE NoError

\* MissingError that takes no notice of the optional flag.
MissingError_Always(port) == "UnsatisfiedRequirement"

\* A requirement port without an offering.
MissingError(port) ==
    IF ~Get(port, "optional") THEN "UnsatisfiedRequirement" ELSE NoError

\* WithEntries that leaves the size out of the match.
WithEntries_Dropped(match, e) == match

\* match['num-entries'] = entries
WithEntries(match, e) == match @@ ("num-entries" :> e)

\* The matching, the number of entries being written to the offered port
\* too.
MatchPortAt_EntriesInOffer(h, off, a) ==
    LET port == h[a].kv
        plat_key == PlatKey(port)
    IN
    IF ~Has(off, plat_key)
    THEN [heap |-> h, err |-> MissingError(port), entries |-> <<>>,
          match |-> <<>>]
    ELSE LET pa == Get(off, plat_key)
             plat_match == h[pa].kv
             match == ("afu" :> a) @@ ("plat" :> pa)
         IN
         IF VectorError(port, plat_match) # NoError
         THEN [heap |-> h, err |-> VectorError(port, plat_match),
               entries |-> <<>>, match |-> <<>>]
         ELSE IF ~Get(port, "vector")
         THEN [heap |-> h, err |-> NoError, entries |-> <<>>,
               match |-> <<match>>]
         ELSE LET e == ConstrainEntries(port, plat_match) IN
              IF EntriesError(port, plat_match, e) # NoError
              THEN [heap |-> h, err |-> EntriesError(port, plat_match, e),
                    entries |-> <<e>>, match |-> <<>>]
              ELSE [heap |-> [h EXCEPT ![pa].kv = Put(@, "num-entries", e)],
                    err |-> NoError, entries |-> <<e>>,
                    match |-> <<WithEntries(match, e)>>]

\* One iteration of the loop over the ports the AFU requests, for the port
\* at address a: the fatal condition met, the size picked (if any) and the
\* match appended (if any).
MatchPortAt(h, off, a) ==
    LET port == h[a].kv
        plat_key == PlatKey(port)
    IN
    IF ~Has(off, plat_key)
    THEN [heap |-> h, err |-> MissingError(port), entries |-> <<>>,
          match |-> <<>>]
    ELSE LET pa == Get(off, plat_key)
             plat_match == h[pa].kv
             match == ("afu" :> a) @@ ("plat" :> pa)
         IN
         IF VectorError(port, plat_match) # NoError
         THEN [heap |-> h, err |-> VectorError(port, plat_match),
               entries |-> <<>>, match |-> <<>>]
         ELSE IF ~Get(port, "vector")
         THEN [heap |-> h, err |-> NoError, entries |-> <<>>,
               match |-> <<match>>]
         ELSE LET e == ConstrainEntries(port, plat_match) IN
              IF EntriesError(port, plat_match, e) # NoError
              THEN [heap |-> h, err |-> EntriesError(port, plat_match, e),
                    entries |-> <<e>>, match |-> <<>>]
              ELSE [heap |-> h, err |-> NoError, entries |-> <<e>>,
                    match |-> <<WithEntries(match, e)>>]

----------------------------------------------------------------------------
(* jsondb.canonicalize of the AFU interface database: structural defaults. *)

FillDefaults(kv) ==
    LET a == IF Has(kv, "optional") THEN kv ELSE Put(kv, "optional", FALSE)
        b == IF Has(a, "vector") THEN a ELSE Put(a, "vector", FALSE)
        c == IF Get(b, "vector") /\ ~Has(b, "min-entries")
             THEN Put(b, "min-entries", 1) ELSE b
        d == IF Get(c, "vector") /\ ~Has(c, "max-entries")
             THEN Put(c, "max-entries", maxsize) ELSE c
    IN  d

CanonicalizeAfu(h, m) ==
    [a \in 1..Len(h) |->
        IF \E i \in 1..Len(m) : m[i][2] = a
        THEN [h[a] EXCEPT !.kv = FillDefaults(@)]
        ELSE h[a]]

----------------------------------------------------------------------------
(* The descriptors a run is started on. *)

EntryVals == 1..maxsize

\* No default-entries, or one.
DefaultItems == {<<>>} \cup {<< <<"default-entries", d>> >> : d \in EntryVals}

ScalarPort(c, i, opt) ==
    Dict(<< <<"class", c>>, <<"interface", i>>, <<"optional", opt>>,
            <<"vector", FALSE>> >>)

VectorPort(c, i, opt, mn, mx, df) ==
    Dict(<< <<"class", c>>, <<"interface", i>>, <<"optional", opt>>,
            <<"vector", TRUE>>, <<"min-entries", mn>>,
            <<"max-entries", mx>> >> \o df)

\* The databases as jsondb hands them to main: the AFU's ports keyed by
\* class, the platform's by class/interface.
LoadedWith(base, plat, recs) ==
    /\ heap = base \o plat \o recs
    /\ orig = base \o plat \o recs
    /\ mp = [i \in 1..Len(base) |-> <<Get(base[i].kv, "class"), i>>]
    /\ offered = [j \in 1..Len(plat) |->
                     <<PlatKey(plat[j].kv), Len(base) + j>>]
    /\ req = <<>>
    /\ pi = 1
    /\ entries = <<>>
    /\ afu_ports = <<>>
    /\ afu_port_list = <<>>
    /\ err = NoError

\* The same, the records of the AFU's module-ports list not yet read.
Loaded(base, plat) == LoadedWith(base, plat, <<>>)

\* afu_platform_config does not look at the environment.
NoEnv == env = <<>> /\ upd = <<>>

\* The items a record of the AFU's module-ports list is made of.
RecItems ==
    {<<"class", "clk">>, <<"class", "mem">>, <<"interface", "ifB">>,
     <<"min-entries", 2>>, <<"min-entries", 3>>, <<"vector", TRUE>>}

RecKeys == {it[1] : it \in RecItems}

\* The records with n items: any items in any order, no key twice.
RecDicts(n) ==
    {kv \in [1..n -> RecItems] :
        \A i, j \in 1..n : i # j => kv[i][1] # kv[j][1]}

\* The elements the AFU's module-ports list may hold.
RecPool ==
    {NotADict} \cup
    {Dict(kv) : kv \in UNION {RecDicts(n) : n \in 0..Cardinality(RecKeys)}}

\* The base AFU interfaces: ports of the classes clk and pwr, as the
\* interface's JSON file states them (some fields left to the defaults).
BaseClk ==
    Dict(<< <<"class", "clk">>, <<"interface", "ifA">>, <<"vector", TRUE>>,
            <<"min-entries", 1>> >>)
BasePwr ==
    Dict(<< <<"class", "pwr">>, <<"interface", "ifP">>,
            <<"optional", TRUE>> >>)
BaseSeqs == {<<>>, <<BaseClk>>, <<BasePwr, BaseClk>>}

\* The platform of a whole run.
PlatSeqs ==
    {<<VectorPort("clk", "ifA", FALSE, 1, MaxEntry, <<>>),
       ScalarPort("mem", "ifB", FALSE),
       ScalarPort("pwr", "ifP", FALSE)>>}

----------------------------------------------------------------------------
(* main, from the loading of the databases on. *)

Init ==
    /\ \E base \in BaseSeqs, plat \in PlatSeqs : Loaded(base, plat)
    /\ NoEnv
    /\ data \in ReqSeqs
    /\ afu_ifc_req = data
    /\ calls = <<>>
    /\ pc = "getAfuIfc"

\* getAfuIfc: the interface is named on the command line (--ifc), or read
\* from the AFU's JSON: the legacy names are cleaned up and the class is
\* dereferenced; without a class the interface is the command line's
\* default, if it gives one.
GetAfuIfc ==
    /\ pc = "getAfuIfc"
    /\ \E ifc \in BOOLEAN :
         IF ifc
         THEN /\ afu_ifc_req' = << <<"class", "ccip_std_afu">>,
                                   <<"file_path", "None">>,
                                   <<"file_name", "None">> >>
              /\ pc' = "platform" /\ err' = err
         ELSE LET afu_ifc == CleanLegacy(afu_ifc_req) IN
              IF Has(afu_ifc, "class")
              THEN /\ afu_ifc_req' = WithFile(afu_ifc)
                   /\ pc' = "platform" /\ err' = err
              ELSE \E default_ifc \in BOOLEAN :
                      IF default_ifc
                      THEN /\ afu_ifc_req' =
                                  WithFile(<< <<"class", "default_afu">> >>)
                           /\ pc' = "platform" /\ err' = err
                      ELSE /\ afu_ifc_req' = afu_ifc
                           /\ errorExit("MissingField")
    /\ calls' = Append(calls, "getAfuIfc")
    /\ UNCHANGED <<heap, orig, mp, offered, data, req, pi, entries, afu_ports,
                   afu_port_list, envVars>>

\* platform.canonicalize()
LoadPlatform ==
    /\ pc = "platform"
    /\ heap' = CanonicalizeAfu(heap, offered)
    /\ calls' = Append(calls, "platform.canonicalize")
    /\ pc' = "inject"
    /\ UNCHANGED <<orig, mp, offered, data, afu_ifc_req, req, pi, entries,
                   afu_ports, afu_port_list, envVars, err>>

\* injectAfuIfcChanges up to its loop.
InjectEnter ==
    /\ pc = "inject"
    /\ IF req_kind = "absent" THEN pc' = "canonicalize" /\ err' = err
       ELSE IF req_kind = "other" THEN errorExit("SchemaError")
       ELSE pc' = "inject_loop" /\ err' = err
    /\ calls' = Append(calls, "injectAfuIfcChanges")
    /\ UNCHANGED <<heap, orig, mp, offered, data, afu_ifc_req, req, pi,
                   entries, afu_ports, afu_port_list, envVars>>

\* One iteration of its loop: the next element of the list is read and
\* merged.
InjectNext ==
    /\ pc = "inject_loop"
    /\ Len(req) < MaxRecs
    /\ \E rec \in RecPool :
        LET a == Len(heap) + 1
            r == InjectPort(Append(heap, rec), mp, a)
        IN  /\ heap' = r.heap
            /\ orig' = Append(orig, rec)
            /\ mp' = r.mp
            /\ req' = Append(req, a)
            /\ IF r.err = NoError THEN pc' = pc /\ err' = err
               ELSE errorExit(r.err)
    /\ UNCHANGED <<offered, data, afu_ifc_req, pi, entries, afu_ports,
                   afu_port_list, calls, envVars>>

\* The return of injectAfuIfcChanges in a main that goes on to
\* matchAfuPorts without afu_ifc.canonicalize().
InjectReturn_ToMatch ==
    /\ pc = "inject_loop"
    /\ pc' = "match"
    /\ UNCHANGED <<heap, orig, mp, offered, data, afu_ifc_req, req, pi,
                   entries, afu_ports, afu_port_list, calls, envVars, err>>

\* The list is exhausted.
InjectReturn ==
    /\ pc = "inject_loop"
    /\ pc' = "canonicalize"
    /\ UNCHANGED <<heap, orig, mp, offered, data, afu_ifc_req, req, pi,
                   entries, afu_ports, afu_port_list, calls, envVars, err>>

\* afu_ifc.canonicalize()
Canonicalize ==
    /\ pc = "canonicalize"
    /\ heap' = CanonicalizeAfu(heap, mp)
    /\ calls' = Append(calls, "afu_ifc.canonicalize")
    /\ pc' = "match"
    /\ UNCHANGED <<orig, mp, offered, data, afu_ifc_req, req, pi, entries,
                   afu_ports, afu_port_list, envVars, err>>

\* One iteration of the loop of matchAfuPorts.
MatchPort ==
    /\ pc = "match"
    /\ pi <= Len(mp)
    /\ LET r == MatchPortAt(heap, offered, mp[pi][2]) IN
        /\ heap' = r.heap
        /\ entries' = r.entries
        /\ IF r.err = NoError
           THEN /\ afu_ports' = afu_ports \o r.match
                /\ pi' = pi + 1
                /\ pc' = pc /\ err' = err
           ELSE /\ errorExit(r.err)
                /\ UNCHANGED <<afu_ports, pi>>
    /\ UNCHANGED <<orig, mp, offered, data, afu_ifc_req, req, afu_port_list,
                   calls, envVars>>

\* matchAfuPorts returns its list to main.
MatchReturn ==
    /\ pc = "match"
    /\ pi > Len(mp)
    /\ afu_port_list' = <<afu_ports>>
    /\ pc' = "emit"
    /\ UNCHANGED <<heap, orig, mp, offered, data, afu_ifc_req, req, pi,
                   entries, afu_ports, calls, envVars, err>>

\* emitConfig and emitSimConfig or emitQsfConfig.
Emit ==
    /\ pc = "emit"
    /\ calls' = Append(calls, "emitConfig")
    /\ pc' = "done"
    /\ UNCHANGED <<heap, orig, mp, offered, data, afu_ifc_req, req, pi,
                   entries, afu_ports, afu_port_list, envVars, err>>

Next ==
    \/ GetAfuIfc
    \/ LoadPlatform
    \/ InjectEnter
    \/ InjectNext
    \/ InjectReturn
    \/ Canonicalize
    \/ MatchPort
    \/ MatchReturn
    \/ Emit

Spec == Init /\ [][Next]_vars

----------------------------------------------------------------------------
(* matchAfuPorts alone, on every pair of a requested and an offered clk    *)
(* port, with or without a second requested port mem.                      *)

ClkReqs ==
    {ScalarPort("clk", "ifA", opt) : opt \in BOOLEAN} \cup
    {VectorPort("clk", "ifA", opt, mn, mx, df) :
        opt \in BOOLEAN, mn \in EntryVals, mx \in EntryVals,
        df \in DefaultItems}

ClkOffers ==
    {<<>>, <<ScalarPort("clk", "ifA", FALSE)>>} \cup
    {<<VectorPort("clk", "ifA", FALSE, mn, mx, df)>> :
        mn \in EntryVals, mx \in EntryVals, df \in DefaultItems}

MemReqs == {<<>>, <<ScalarPort("mem", "ifB", FALSE)>>}

MemOffers ==
    {<<>>, <<ScalarPort("mem", "ifB", FALSE)>>,
     <<ScalarPort("mem", "ifC", FALSE)>>}

InitMatch ==
    /\ \E c \in ClkReqs, m \in MemReqs, first \in BOOLEAN,
          co \in ClkOffers, mo \in MemOffers :
          /\ m = <<>> => first /\ mo = <<>>
          /\ Loaded(IF first THEN <<c>> \o m ELSE m \o <<c>>, co \o mo)
    /\ NoEnv
    /\ data = << <<"class", "ccip_std_afu">> >>
    /\ afu_ifc_req = WithFile(data)
    /\ calls = <<"getAfuIfc", "platform.canonicalize", "injectAfuIfcChanges",
                 "afu_ifc.canonicalize">>
    /\ pc = "match"

NextMatch ==
    \/ MatchPort
    \/ MatchReturn

SpecMatch == InitMatch /\ [][NextMatch]_vars

----------------------------------------------------------------------------
(* getAfuIfc on any interface record of the AFU's JSON. *)

\* The items of the record: the legacy keys and the current ones, with
\* values that differ, and a key the clean-up has nothing to do with.
TopItems ==
    {<<"module-arguments", "list">>, <<"module-ports", "other">>,
     <<"name", "old_afu">>, <<"class", "ccip_std_afu">>,
     <<"version", "1">>}

\* The records: any of the items in any order.
TopRecs ==
    UNION {{kv \in [1..n -> TopItems] :
               \A i, j \in 1..n : i # j => kv[i][1] # kv[j][1]} :
           n \in 0..Cardinality(TopItems)}

InitCanon ==
    /\ Loaded(<<>>, <<>>)
    /\ NoEnv
    /\ data \in TopRecs
    /\ afu_ifc_req = data
    /\ calls = <<>>
    /\ pc = "getAfuIfc"

NextCanon == GetAfuIfc

SpecCanon == InitCanon /\ [][NextCanon]_vars

----------------------------------------------------------------------------
(* afu_synth_setup: getCmdEnv and updCmdEnv.  A string is the sequence of
   its characters. *)

\* str.split(':')
RECURSIVE Split(_)
Split(s) ==
    IF \A n \in 1..Len(s) : s[n] # ":"
    THEN <<s>>
    ELSE LET n == CHOOSE n \in 1..Len(s) :
                      s[n] = ":" /\ \A m \in 1..(n - 1) : s[m] # ":"
         IN  <<SubSeq(s, 1, n - 1)>> \o Split(SubSeq(s, n + 1, Len(s)))

\* Update a platform db search path in e.
updCmdEnv(e, key, value) ==
    IF ~Has(e, key)
    THEN Put(e, key, value)
    ELSE LET p == Split(Get(e, key)) IN
         IF p[Len(p)] # value
         THEN Put(e, key, Get(e, key) \o <<":">> \o value)
         ELSE e

\* The search lists the environment may hold when the script starts, and
\* the directories of a release (no colon in their names).
Strs(alphabet, n) == UNION {[1..k -> alphabet] : k \in 0..n}
Lists == Strs({"a", "b", ":"}, MaxStr)
Dirs == Strs({"a", "b"}, 2) \ {<<>>}

\* os.environ with or without a variable.
EnvWith(key, lists) == {<<>>} \cup {<< <<key, l>> >> : l \in lists}

\* The script starts: the environment, and the release's platform_db and
\* afu_top_ifc_db directories.
InitEnv ==
    /\ Loaded(<<>>, <<>>)
    /\ data = <<>>
    /\ afu_ifc_req = <<>>
    /\ calls = <<>>
    /\ pc = "synth"
    /\ \E e1 \in EnvWith("OPAE_PLATFORM_DB_PATH", Lists),
          e2 \in EnvWith("OPAE_AFU_TOP_IFC_DB_PATH", {<<"b">>, <<"a", ":", "b">>}),
          plat_db \in Dirs, ifc_db \in {<<"a">>} :
          /\ env = e1 \o e2
          /\ upd = [plat_db |-> plat_db, ifc_db |-> ifc_db, runs |-> 0,
                    before |-> env, updated |-> {}]

\* getCmdEnv, called for a command: without a library path the environment
\* is left alone; otherwise each search path whose directory exists is
\* updated.
GetCmdEnv ==
    /\ pc = "synth"
    /\ upd.runs < MaxRuns
    /\ \E lib, plat_exists, ifc_exists \in BOOLEAN :
         LET e1 == IF lib /\ plat_exists
                   THEN updCmdEnv(env, "OPAE_PLATFORM_DB_PATH", upd.plat_db)
                   ELSE env
             e2 == IF lib /\ ifc_exists
                   THEN updCmdEnv(e1, "OPAE_AFU_TOP_IFC_DB_PATH", upd.ifc_db)
                   ELSE e1
         IN  /\ env' = e2
             /\ upd' = [upd EXCEPT
                           !.runs = @ + 1,
                           !.before = env,
                           !.updated =
                               {k \in {"OPAE_PLATFORM_DB_PATH"} :
                                   lib /\ plat_exists} \cup
                               {k \in {"OPAE_AFU_TOP_IFC_DB_PATH"} :
                                   lib /\ ifc_exists}]
    /\ UNCHANGED <<heap, orig, mp, offered, data, afu_ifc_req, req, pi,
                   entries, afu_ports, afu_port_list, calls, pc, err>>

NextEnv == GetCmdEnv

SpecEnv == InitEnv /\ [][NextEnv]_vars

----------------------------------------------------------------------------
(* injectAfuIfcChanges on whole lists of records: the list is drawn at once
   and merged in one step. *)

\* Records in the order class, interface, min-entries, each field present
\* or not, and an element that is no dictionary.
OrderRecs ==
    {NotADict} \cup
    {Dict(c \o i \o m) :
        c \in {<< <<"class", "clk">> >>, << <<"class", "mem">> >>},
        i \in {<<>>, << <<"interface", "ifB">> >>},
        m \in {<<>>, << <<"min-entries", 2>> >>, << <<"min-entries", 3>> >>}}

RecSeqs == UNION {[1..n -> OrderRecs] : n \in 0..MaxRecs}

InitOrder ==
    /\ \E base \in BaseSeqs, plat \in PlatSeqs, recs \in RecSeqs :
          LoadedWith(base, plat, recs)
    /\ NoEnv
    /\ data = << <<"class", "ccip_std_afu">>, <<"module-ports", "list">> >>
    /\ afu_ifc_req = WithFile(data)
    /\ calls = <<"getAfuIfc", "platform.canonicalize">>
    /\ pc = "inject"

\* The whole loop of injectAfuIfcChanges over the list, and its return.
InjectList ==
    /\ pc = "inject_loop"
    /\ req = <<>>
    /\ LET first == Len(mp) + Len(offered)
           as == [i \in 1..(Len(heap) - first) |-> first + i]
           r == InjectFrom(heap, mp, as, 1)
       IN  /\ heap' = r.heap
           /\ mp' = r.mp
           /\ req' = as
           /\ IF r.err = NoError THEN pc' = "canonicalize" /\ err' = err
              ELSE errorExit(r.err)
    /\ UNCHANGED <<orig, offered, data, afu_ifc_req, pi, entries, afu_ports,
                   afu_port_list, calls, envVars>>

NextOrder ==
    \/ InjectEnter
    \/ InjectList

SpecOrder == InitOrder /\ [][NextOrder]_vars

----------------------------------------------------------------------------
(* What the claims speak of. *)

MatchErrors == {"UnsatisfiedRequirement", "VectorMismatch",
                "InsufficientEntries"}

\* The requested ports the loop of matchAfuPorts has got past, and the one
\* it failed on.
Passed == IF pc \in {"match", "emit", "done"} \/ err \in MatchErrors
          THEN 1..(pi - 1) ELSE {}
Failed == IF pc = "error" /\ err \in MatchErrors THEN {pi} ELSE {}

ReqPort(j) == heap[mp[j][2]].kv

\* The offered ports of the same class and interface as requested port j.
OffersFor(j) ==
    {a \in {offered[i][2] : i \in 1..Len(offered)} :
        /\ Get(heap[a].kv, "class") = Get(ReqPort(j), "class")
        /\ Get(heap[a].kv, "interface") = Get(ReqPort(j), "interface")}

OfferOf(j) == heap[CHOOSE a \in OffersFor(j) : TRUE].kv

BothVectors(j) ==
    /\ OffersFor(j) # {}
    /\ Get(ReqPort(j), "vector")
    /\ Get(OfferOf(j), "vector")

\* The matches recorded for requested port j.
MatchesOf(j) ==
    {i \in 1..Len(afu_ports) : afu_ports[i]["afu"] = mp[j][2]}

\* n is within the [min-entries, max-entries] window of port p.
InWindow(n, p) == Get(p, "min-entries") <= n /\ n <= Get(p, "max-entries")

\* The requested port the size in `entries` was picked for.
Sized == IF pc = "error" THEN pi ELSE pi - 1

----------------------------------------------------------------------------
\* C1: for every recorded match of a vector requirement with a vector
\* offering, the recorded num-entries N lies within the requirement's
\* [min-entries, max-entries] and within the offering's
\* [min-entries, max-entries], whatever the min/max/default fields are.
C1_EntriesWithinBothWindows ==
    \A i \in 1..Len(afu_ports) :
        "num-entries" \in DOMAIN afu_ports[i] =>
            /\ InWindow(afu_ports[i]["num-entries"],
                        heap[afu_ports[i]["afu"]].kv)
            /\ InWindow(afu_ports[i]["num-entries"],
                        heap[afu_ports[i]["plat"]].kv)

----------------------------------------------------------------------------
\* The decision chain of the specification, first applicable rule wins.
RuleA(p, o) ==
    /\ Get(p, "max-entries") = maxsize
    /\ Has(p, "default-entries")
    /\ InWindow(Get(p, "default-entries"), o)
RuleB(p, o) ==
    /\ Get(p, "max-entries") = maxsize
    /\ Has(o, "default-entries")
    /\ Get(o, "default-entries") >= Get(p, "min-entries")
Chosen(p, o) ==
    CASE RuleA(p, o) -> Get(p, "default-entries")
      [] ~RuleA(p, o) /\ RuleB(p, o) -> Get(o, "default-entries")
      [] OTHER -> Get(o, "max-entries")
Least(x, y) == IF x <= y THEN x ELSE y

\* C2: for a vector requirement matched to a vector offering, the value
\* chosen before the bound checks is the one of the decision chain (a), (b),
\* (c), reduced to the requirement's max-entries if it exceeds it; with a
\* pinned max-entries it is min(offering max-entries, requirement
\* max-entries) whatever the defaults are, and rule (a) wins over rule (b).
C2_DecisionChain ==
    entries # <<>> =>
        LET p == ReqPort(Sized)
            o == OfferOf(Sized)
        IN  /\ BothVectors(Sized)
            /\ entries[1] = Least(Chosen(p, o), Get(p, "max-entries"))
            /\ Get(p, "max-entries") # maxsize =>
                   entries[1] = Least(Get(o, "max-entries"),
                                      Get(p, "max-entries"))
            /\ RuleA(p, o) /\ RuleB(p, o) =>
                   entries[1] = Least(Get(p, "default-entries"), maxsize)

\* Rules (a) and (b) both apply, with different defaults.
C2_Witness ==
    /\ entries # <<>>
    /\ pc # "error"
    /\ RuleA(ReqPort(Sized), OfferOf(Sized))
    /\ RuleB(ReqPort(Sized), OfferOf(Sized))
    /\ Get(ReqPort(Sized), "default-entries") #
           Get(OfferOf(Sized), "default-entries")

----------------------------------------------------------------------------
\* No integer lies in the windows of both sides of pair j.
NoCommonSize(j) ==
    ~\E n \in 0..(maxsize + 1) :
        InWindow(n, ReqPort(j)) /\ InWindow(n, OfferOf(j))

\* C3: a vector requirement whose window and whose vector offering's window
\* have no integer in common fails with the insufficient-entries error and
\* gets no match.
C3_NoCommonSizeFails ==
    \A j \in Passed \cup Failed :
        BothVectors(j) /\ NoCommonSize(j) =>
            /\ j \in Failed
            /\ err = "InsufficientEntries"
            /\ MatchesOf(j) = {}

----------------------------------------------------------------------------
\* C4: sizing never backtracks: a chosen and clamped value below the
\* requirement's or the offering's min-entries ends the run with the
\* insufficient-entries error, with no match for the port and no list
\* returned, also when another size would fit both windows.
C4_NoBacktracking ==
    (/\ entries # <<>>
     /\ \/ entries[1] < Get(ReqPort(Sized), "min-entries")
        \/ entries[1] < Get(OfferOf(Sized), "min-entries"))
    => /\ pc = "error"
       /\ err = "InsufficientEntries"
       /\ MatchesOf(pi) = {}
       /\ afu_port_list = <<>>

\* The run failed on a pair that another size would have satisfied.
C4_Witness ==
    /\ pc = "error"
    /\ err = "InsufficientEntries"
    /\ entries # <<>>
    /\ entries[1] < Get(ReqPort(pi), "min-entries")
    /\ ~NoCommonSize(pi)
    /\ RuleA(ReqPort(pi), OfferOf(pi))

----------------------------------------------------------------------------
\* C5: a requested port whose class and interface no offered port has is
\* skipped when it is optional (no match, no error, the loop goes on) and
\* ends the run with the unsatisfied-requirement error, no list returned,
\* when it is not.
C5_MissingOffering ==
    /\ \A j \in Passed :
           OffersFor(j) = {} =>
               Get(ReqPort(j), "optional") /\ MatchesOf(j) = {}
    /\ \A j \in Failed :
           OffersFor(j) = {} =>
               /\ ~Get(ReqPort(j), "optional")
               /\ err = "UnsatisfiedRequirement"
               /\ MatchesOf(j) = {}
               /\ afu_port_list = <<>>

\* An optional port without an offering was skipped, a later port matched
\* and the list was returned.
C5_Witness ==
    /\ afu_port_list # <<>>
    /\ Len(mp) = 2
    /\ OffersFor(1) = {}
    /\ Get(ReqPort(1), "optional")
    /\ MatchesOf(2) # {}

----------------------------------------------------------------------------
\* C6: a requested port that finds an offering of its class and interface
\* with the other vector flag ends the run with the vector-mismatch error,
\* optional or not; optional does not spare a port the insufficient-entries
\* error either.
C6_VectorMismatch ==
    /\ \A j \in Passed :
           OffersFor(j) # {} =>
               Get(ReqPort(j), "vector") = Get(OfferOf(j), "vector")
    /\ \A j \in Failed :
           OffersFor(j) # {} =>
               IF Get(ReqPort(j), "vector") # Get(OfferOf(j), "vector")
               THEN err = "VectorMismatch" /\ MatchesOf(j) = {}
               ELSE err = "InsufficientEntries"
    /\ \A j \in Passed :
           BothVectors(j) /\ Get(ReqPort(j), "optional") =>
               \A i \in MatchesOf(j) :
                   /\ afu_ports[i]["num-entries"] >=
                          Get(ReqPort(j), "min-entries")
                   /\ afu_ports[i]["num-entries"] >=
                          Get(OfferOf(j), "min-entries")

\* An optional non-vector port met an offered vector and the run failed.
C6_Witness ==
    /\ pc = "error"
    /\ err = "VectorMismatch"
    /\ Get(ReqPort(pi), "optional")
    /\ ~Get(ReqPort(pi), "vector")
    /\ Get(OfferOf(pi), "vector")

----------------------------------------------------------------------------
\* C7: in a returned list a match has a num-entries exactly when its
\* requested and its offered port are both vectors, and a non-vector
\* requested port with a non-vector offering of its class and interface has
\* exactly one match, without num-entries.
C7_NumEntriesIffVectors ==
    afu_port_list # <<>> =>
        LET list == afu_port_list[1] IN
        /\ \A i \in 1..Len(list) :
               "num-entries" \in DOMAIN list[i] <=>
                   /\ Get(heap[list[i]["afu"]].kv, "vector")
                   /\ Get(heap[list[i]["plat"]].kv, "vector")
        /\ \A j \in 1..Len(mp) :
               (/\ OffersFor(j) # {}
                /\ ~Get(ReqPort(j), "vector")
                /\ ~Get(OfferOf(j), "vector")) =>
                   /\ Cardinality({i \in 1..Len(list) :
                                      list[i]["afu"] = mp[j][2]}) = 1
                   /\ \A i \in 1..Len(list) :
                          list[i]["afu"] = mp[j][2] =>
                              /\ "num-entries" \notin DOMAIN list[i]
                              /\ list[i]["plat"] \in OffersFor(j)

\* A returned list with a sized match and an unsized one.
C7_Witness ==
    /\ afu_port_list # <<>>
    /\ \E i, k \in 1..Len(afu_port_list[1]) :
           /\ "num-entries" \in DOMAIN afu_port_list[1][i]
           /\ "num-entries" \notin DOMAIN afu_port_list[1][k]

----------------------------------------------------------------------------
(* What the claims on the merge speak of. *)

Range(f) == {f[i] : i \in 1..Len(f)}
KeySet(d) == {d[i][1] : i \in 1..Len(d)}

\* The ports of the base interface: those of mp that no record brought.
BaseAddrs == {mp[i][2] : i \in 1..Len(mp)} \ Range(req)
BaseClasses == {mp[i][1] : i \in {n \in 1..Len(mp) : mp[n][2] \in BaseAddrs}}

\* The i-th record of the list as the AFU's JSON file gave it.
Given(i) == orig[req[i]].kv

\* Every record read so far was merged without error.
Merged == pc \in {"inject_loop", "canonicalize"}

\* The i-th record met a port of its class: it is an override.
IsOverride(i) ==
    \/ Get(Given(i), "class") \in BaseClasses
    \/ \E j \in 1..(i - 1) : Get(Given(j), "class") = Get(Given(i), "class")

\* A record is being read and merged in this step; it and its address.
Merging == pc = "inject_loop" /\ Len(req') = Len(req) + 1
NewAddr == Len(heap) + 1
NewRec == orig'[NewAddr]

\* The step leaves the module-ports mapping and all its ports as they were.
PortsKept == mp' = mp /\ \A b \in 1..Len(heap) : heap'[b] = heap[b]

----------------------------------------------------------------------------
\* C8: a record of a class already in the set that has a field outside the
\* permitted ones fails with the unauthorized-override error, and at that
\* moment the set is exactly as it was before the record: none of the
\* record's permitted fields has been written, whatever the fields' order.
C8_NoPartialOverride ==
    [][(/\ Merging
        /\ NewRec.dict
        /\ Has(NewRec.kv, "class")
        /\ Has(mp, Get(NewRec.kv, "class"))
        /\ KeySet(NewRec.kv) \ ({"class"} \cup
               legal_afu_ifc_update_classes) # {})
       => /\ pc' = "error"
          /\ err' = "UnauthorizedOverride"
          /\ PortsKept]_vars

----------------------------------------------------------------------------
\* The fields of the base ports that no record may update are as loaded.
BaseFrame ==
    \A a \in BaseAddrs :
        \A k \in (KeySet(orig[a].kv) \cup KeySet(heap[a].kv)) \
                 legal_afu_ifc_update_classes :
            /\ Has(orig[a].kv, k)
            /\ Has(heap[a].kv, k)
            /\ Get(heap[a].kv, k) = Get(orig[a].kv, k)

\* Permitted field k of override record i is what the port of its class
\* holds.
Holds(i, k) ==
    LET c == Get(Given(i), "class") IN
    /\ Has(heap[Get(mp, c)].kv, k)
    /\ Get(heap[Get(mp, c)].kv, k) = Get(Given(i), k)

\* A later record of the same class names field k too.
Overridden(i, k) ==
    \E j \in (i + 1)..Len(req) :
        /\ Get(Given(j), "class") = Get(Given(i), "class")
        /\ Has(Given(j), k)

\* C9 as stated: after records merged without error, the base ports keep
\* every field outside the permitted ones, and every permitted field an
\* override record names holds that record's value.
C9_EveryOverrideHolds ==
    Merged =>
        /\ BaseFrame
        /\ \A i \in 1..Len(req) :
               IsOverride(i) =>
                   \A k \in KeySet(Given(i)) \cap legal_afu_ifc_update_classes :
                       Holds(i, k)

\* C9, amended: after records merged without error, the base ports keep
\* every field outside the permitted ones, and every permitted field an
\* override record names holds the value of the last override record of
\* that class that names it.
C9_LastOverrideHolds ==
    Merged =>
        /\ BaseFrame
        /\ \A i \in 1..Len(req) :
               IsOverride(i) =>
                   \A k \in KeySet(Given(i)) \cap legal_afu_ifc_update_classes :
                       ~Overridden(i, k) => Holds(i, k)

\* Two override records of a base class gave the same field two values.
C9_Witness ==
    /\ Merged
    /\ Len(req) = 2
    /\ Get(Given(1), "class") \in BaseClasses
    /\ Get(Given(2), "class") = Get(Given(1), "class")
    /\ Has(Given(1), "min-entries")
    /\ Has(Given(2), "min-entries")
    /\ Get(Given(1), "min-entries") # Get(Given(2), "min-entries")

----------------------------------------------------------------------------
\* C10: a record without class fails with the missing-field error; a record
\* of a class not in the set fails with the missing-field error and is not
\* inserted when it has no interface, and is otherwise inserted as a new
\* port under its class, every port present before being unchanged.
C10_Extension ==
    [][(Merging /\ NewRec.dict) =>
        IF ~Has(NewRec.kv, "class")
        THEN pc' = "error" /\ err' = "MissingField" /\ PortsKept
        ELSE ~Has(mp, Get(NewRec.kv, "class")) =>
                 IF ~Has(NewRec.kv, "interface")
                 THEN pc' = "error" /\ err' = "MissingField" /\ PortsKept
                 ELSE /\ pc' = "inject_loop"
                      /\ err' = NoError
                      /\ mp' = Append(mp, <<Get(NewRec.kv, "class"), NewAddr>>)
                      /\ heap'[NewAddr] = NewRec
                      /\ \A b \in 1..Len(heap) : heap'[b] = heap[b]]_vars

\* A record brought a new port to a set that had ports.
C10_Witness ==
    /\ pc = "inject_loop"
    /\ Len(mp) >= 2
    /\ mp[Len(mp)][2] \in Range(req)
    /\ BaseAddrs # {}

----------------------------------------------------------------------------
(* The order of the records *)

\* injectAfuIfcChanges is in its loop over the records or has returned, or
\* a record has ended it with an error.
InMerge ==
    /\ Len(calls) > 0
    /\ calls[Len(calls)] = "injectAfuIfcChanges"
    /\ \/ pc \in {"inject_loop", "canonicalize"}
       \/ pc = "error" /\ Len(req) > 0

\* The module-ports mapping of the base interface, before any record.
BaseMp == SelectSeq(mp, LAMBDA e : e[2] \in BaseAddrs)

\* What a merge leaves: whether it succeeded and, if so, the port of each
\* class, as Python compares dictionaries (by items, not by their order).
Items(kv) == {kv[i] : i \in 1..Len(kv)}
Outcome(ok, h, m) ==
    [ok    |-> ok,
     ports |-> IF ok THEN {<<m[i][1], Items(h[m[i][2]].kv)>> : i \in 1..Len(m)}
               ELSE {}]

\* The outcome of the run so far, and of the same records taken in the
\* order f.
Actual == Outcome(pc # "error", heap, mp)
Replayed(f) ==
    LET r == InjectFrom(orig, BaseMp, [i \in 1..Len(req) |-> req[f[i]]], 1)
    IN  Outcome(r.err = NoError, r.heap, r.mp)

\* The records that name a class the base interface does not have.
NamesNewClass ==
    LET base == BaseClasses IN
    {i \in 1..Len(req) :
        /\ orig[req[i]].dict
        /\ Has(Given(i), "class")
        /\ Get(Given(i), "class") \notin base}

\* The other orders that move only those records.
Reorders ==
    LET new == NamesNewClass IN
    IF Cardinality(new) < 2 THEN {}
    ELSE {f \in [1..Len(req) -> 1..Len(req)] :
             /\ \A i, j \in 1..Len(req) : i # j => f[i] # f[j]
             /\ \A i \in 1..Len(req) : i \notin new => f[i] = i
             /\ \E i \in 1..Len(req) : f[i] # i}

\* The order in which records i and j have changed places.
Swap(i, j) ==
    [n \in 1..Len(req) |-> IF n = i THEN j ELSE IF n = j THEN i ELSE n]

\* Two override records of one class give a permitted field two values and
\* no later record gives it another: the port holds the later value, and
\* the two records in the other order leave another port.
LastApplied ==
    \A i, j \in 1..Len(req) :
        (/\ pc # "error"
         /\ i < j
         /\ Get(Given(j), "class") = Get(Given(i), "class")
         /\ IsOverride(i))
        => \A k \in KeySet(Given(i)) \cap KeySet(Given(j)) \cap
                    legal_afu_ifc_update_classes :
               (Get(Given(i), k) # Get(Given(j), k) /\ ~Overridden(j, k))
               => Holds(j, k) /\ Replayed(Swap(i, j)) # Actual

\* No two records name the same new class.
NewClassesDistinct ==
    \A i, j \in NamesNewClass :
        i # j => Get(Given(i), "class") # Get(Given(j), "class")

----------------------------------------------------------------------------
\* C11 as stated: taking the records that name new classes in any other
\* order gives the same outcome (success or failure, and the same port for
\* each class), also when several records name the same new class; of two
\* overrides of one field of one class the later value is left, and the
\* other order leaves another.
C11_AnyOrderOfNewClasses ==
    InMerge =>
        /\ \A f \in Reorders : Replayed(f) = Actual
        /\ LastApplied

\* C11, amended: the same, for sequences in which no two records name the
\* same new class.
C11_OrderOfDistinctNewClasses ==
    InMerge =>
        /\ \A f \in Reorders : NewClassesDistinct => Replayed(f) = Actual
        /\ LastApplied

\* Two records brought ports of two new classes.
C11_Witness ==
    /\ InMerge
    /\ pc # "error"
    /\ Len(req) = 2
    /\ Cardinality(NamesNewClass) = 2
    /\ NewClassesDistinct
    /\ Len(mp) = Len(BaseMp) + 2

----------------------------------------------------------------------------
(* The order of the ports in matchAfuPorts *)

\* The classes of the model in Python's order of strings, and the place of
\* a class in it.  A class has one port, so the order of the classes is
\* the order of the (class, interface) pairs.
ClassOrder == <<"clk", "mem", "pwr">>
Rank(c) == CHOOSE n \in 1..Len(ClassOrder) : ClassOrder[n] = c

\* Port j of the mapping cannot be matched.
WouldFail(j) == MatchPortAt(heap, offered, mp[j][2]).err # NoError

\* C12: when matchAfuPorts fails, the port its diagnostic is about is the
\* smallest, in (class, interface) order, of the ports that cannot be
\* matched, whatever the order in which the ports were inserted.
C12_SmallestFailingPortReported ==
    Failed # {} =>
        \A j \in 1..Len(mp) :
            WouldFail(j) => Rank(mp[pi][1]) <= Rank(mp[j][1])

----------------------------------------------------------------------------
(* The clean-up of the legacy names in getAfuIfc *)

LegacyKeys == {"module-arguments", "name"}

\* getAfuIfc has returned the cleaned-up record of the JSON.
Cleaned == pc = "platform" /\ afu_ifc_req = WithFile(CleanLegacy(data))

\* C13: the clean-up applied twice gives the record the clean-up applied
\* once gives, and applied to the record getAfuIfc has left it changes
\* nothing.
C13_CleanLegacyIdempotent ==
    /\ CleanLegacy(CleanLegacy(data)) = CleanLegacy(data)
    /\ Len(calls) > 0 => CleanLegacy(afu_ifc_req) = afu_ifc_req

\* A record with both legacy keys has been cleaned up.
C13_Witness ==
    /\ Cleaned
    /\ LegacyKeys \subseteq KeySet(data)
    /\ KeySet(afu_ifc_req) \cap LegacyKeys = {}

----------------------------------------------------------------------------
\* C14: in the record getAfuIfc returns, every key of the JSON's record
\* other than the two legacy keys has the value it had, also module-ports
\* and class when the record had the legacy key beside them.
C14_OtherKeysKept ==
    Cleaned =>
        \A k \in KeySet(data) \ LegacyKeys :
            Has(afu_ifc_req, k) /\ Get(afu_ifc_req, k) = Get(data, k)

----------------------------------------------------------------------------
(* The platform's offers *)

OfferAddrs == {offered[i][2] : i \in 1..Len(offered)}

\* C15: no step of injectAfuIfcChanges or of matchAfuPorts, failing or
\* not, changes the mapping of the offered ports or a field of an offered
\* port, and no step of matchAfuPorts changes the mapping of the requested
\* ports or a field of a requested port.
C15_OfferingsKept ==
    [][/\ pc \in {"inject", "inject_loop", "match"} =>
           /\ offered' = offered
           /\ \A a \in OfferAddrs : heap'[a] = heap[a]
       /\ pc = "match" =>
           /\ mp' = mp
           /\ \A j \in 1..Len(mp) : heap'[mp[j][2]] = heap[mp[j][2]]]_vars

\* After a merge of records, a vector port has been matched and sized.
C15_Witness ==
    /\ pc = "emit"
    /\ Len(req) > 0
    /\ \E n \in 1..Len(afu_ports) :
           "num-entries" \in DOMAIN afu_ports[n]

----------------------------------------------------------------------------
(* The end of main *)

Called(f) == \E n \in 1..Len(calls) : calls[n] = f

\* C16: a configuration is emitted only when the merge has been made and
\* every requested port has been matched, no fatal condition having been
\* met; a fatal condition puts the run in the error state at once, where
\* no configuration has been emitted and from where no step is taken: no
\* later record or port is processed, no configuration emitted.
C16_EmitOnlyAfterSuccess ==
    [][/\ pc # "error"
       /\ err' # NoError => pc' = "error" /\ ~Called("emitConfig")'
       /\ Called("emitConfig")' =>
              /\ err' = NoError
              /\ Called("injectAfuIfcChanges")'
              /\ pi' = Len(mp') + 1
              /\ afu_port_list' = <<afu_ports'>>]_vars

\* A configuration has been emitted after a merge of records and a
\* matching of ports.
C16_Witness ==
    /\ pc = "done"
    /\ Called("emitConfig")
    /\ Len(req) > 0
    /\ Len(afu_ports) > 0

----------------------------------------------------------------------------
(* The order of the calls of main *)

\* f has been called, and g after it.
Before(f, g) ==
    \E n, m \in 1..Len(calls) : n < m /\ calls[n] = f /\ calls[m] = g

\* When injectAfuIfcChanges is called, the record of the AFU's JSON has
\* had its legacy keys renamed and the platform's ports are canonical.
RequestCleanedFirst ==
    Called("injectAfuIfcChanges") =>
        /\ Before("getAfuIfc", "injectAfuIfcChanges")
        /\ Before("platform.canonicalize", "injectAfuIfcChanges")
        /\ KeySet(afu_ifc_req) \cap LegacyKeys = {}

\* Matching begins after the merge and both canonicalizations.
MatchLast ==
    pc = "match" =>
        /\ Called("injectAfuIfcChanges")
        /\ Called("platform.canonicalize")
        /\ Called("afu_ifc.canonicalize")

\* C17 as stated: when injectAfuIfcChanges is called the base interface
\* has been canonicalized and the record of the AFU's JSON has had its
\* legacy keys renamed; matching begins after the merge and both
\* canonicalizations.
C17_CanonicalBeforeMerge ==
    /\ Called("injectAfuIfcChanges") =>
           Before("afu_ifc.canonicalize", "injectAfuIfcChanges")
    /\ RequestCleanedFirst
    /\ MatchLast

\* C17, amended: the base interface is canonicalized after the merge, not
\* before it; the rest as stated.
C17_CanonicalAfterMerge ==
    /\ Called("afu_ifc.canonicalize") =>
           Before("injectAfuIfcChanges", "afu_ifc.canonicalize")
    /\ RequestCleanedFirst
    /\ MatchLast

\* Matching begins in a run whose JSON had the legacy keys and whose merge
\* read a record.
C17_Witness ==
    /\ pc = "match"
    /\ LegacyKeys \subseteq KeySet(data)
    /\ Len(req) > 0
    /\ Called("getAfuIfc")

----------------------------------------------------------------------------
(* The search paths of afu_synth_setup *)

\* The number of times value is an element of the search list of key in e.
Occurs(e, key, value) ==
    IF ~Has(e, key) THEN 0
    ELSE LET p == Split(Get(e, key)) IN
         Cardinality({n \in 1..Len(p) : p[n] = value})

\* C18: after updCmdEnv the value is in the search list of the key; it is
\* there no more often than before, unless it was not there at all; and
\* updCmdEnv with the same key and value once more leaves the environment
\* as it is.
C18_AddedOnlyIfAbsent ==
    "OPAE_PLATFORM_DB_PATH" \in upd.updated =>
        LET key == "OPAE_PLATFORM_DB_PATH"
            value == upd.plat_db
        IN  /\ Occurs(env, key, value) >= 1
            /\ Occurs(upd.before, key, value) >= 1 =>
                   Occurs(env, key, value) <= Occurs(upd.before, key, value)
            /\ updCmdEnv(env, key, value) = env

----------------------------------------------------------------------------
(* One port per class *)

\* No two entries of the module-ports mapping are of one class, and each
\* port is of the class it is entered under.
OnePerClass ==
    \A i \in 1..Len(mp) :
        /\ Get(heap[mp[i][2]].kv, "class") = mp[i][1]
        /\ \A j \in 1..Len(mp) : i # j => mp[i][1] # mp[j][1]

\* C19: every step of injectAfuIfcChanges leaves at most one port per
\* class, and a record that names a class in the set (from the base or
\* from an earlier record) and has an interface field fails with the
\* unauthorized-override error, no port being added.
C19_OnePortPerClass ==
    [][/\ pc \in {"inject", "inject_loop"} => OnePerClass'
       /\ (/\ Merging
           /\ NewRec.dict
           /\ Has(NewRec.kv, "class")
           /\ Has(mp, Get(NewRec.kv, "class"))
           /\ Has(NewRec.kv, "interface"))
          => /\ pc' = "error"
             /\ err' = "UnauthorizedOverride"
             /\ mp' = mp]_vars

\* A record of a class that an earlier record had added, with an
\* interface, has been rejected.
C19_Witness ==
    /\ pc = "error"
    /\ err = "UnauthorizedOverride"
    /\ Len(req) = 2
    /\ Get(Given(1), "class") \notin BaseClasses
    /\ Get(Given(2), "class") = Get(Given(1), "class")
    /\ Has(Given(2), "interface")
    /\ Len(mp) = Len(BaseMp) + 1

----------------------------------------------------------------------------
\* C20: while injectAfuIfcChanges runs and when it has returned or failed,
\* every record it has read has the fields and values it had when it was
\* parsed, also a record that added a port of a new class and was followed
\* by a record overriding fields of that class.
C20_RecordsKept ==
    InMerge => \A i \in 1..Len(req) : heap[req[i]] = orig[req[i]]

====
